---- MODULE Spec2Model ----
(***************************************************************************)
(* Workspace session controller of the IDE component                      *)
(* (frontend/src/components/IDE.tsx): the open-document set, the project   *)
(* lifecycle, the analysis progress stream and the keyboard dispatcher.    *)
(*                                                                         *)
(* React state is modelled as variables.  A synchronous handler is one     *)
(* action reading the state of the render it was created in (the current   *)
(* state).  An asynchronous handler is an action up to its first await,    *)
(* leaving a record in a bag of in-flight invocations that carries what    *)
(* its closure captured, and one action per way the awaited call settles.  *)
(* Functional updaters (setX(prev => ...)) read the current state; values  *)
(* read from the closure after an await are the captured ones.             *)
(*                                                                         *)
(* Strings that the code takes apart (paths) are sequences of tokens, "/"  *)
(* being a token of its own, so that joining and prefix tests are          *)
(* computed as the code computes them.  The empty sequence is both the     *)
(* empty string and null: the code only ever tests such values for         *)
(* truthiness.                                                             *)
(***************************************************************************)
EXTENDS Bags, FiniteSets, Integers, Sequences, TLC

(* ------------------------------ bounds --------------------------------- *)
\* in-flight read-file requests explored at once
MaxReads == 2
\* in-flight write-file requests explored at once
MaxSaves == 2
\* in-flight delete-file requests explored at once
MaxDeletes == 1
\* in-flight generation requests explored at once
MaxGens == 1
\* length of the open-document list explored
MaxOpenFiles == 3
\* analysis runs in flight at once
MaxRuns == 2
\* tokens held by the buffer of one analysis stream, the chunk just read included
MaxBuffer == 6
\* tokens one analysis stream delivers
MaxStream == 9

(* --------------------------- program constants ------------------------- *)
MAX_RECENT_PROJECTS == 5

(* ------------------------------ inputs --------------------------------- *)
SLASH == "/"
NoPath == <<>>
NoTree == <<>>

\* project roots the user can name: one without and one with a trailing "/"
RootP == <<"p">>
RootQ == <<"q", SLASH>>
Roots == {RootP, RootQ}

\* relative paths of the files of a project tree
FileA == <<"a.py">>
FileB == <<"b.py">>
FileC == <<"c.py">>
TreePaths == {FileA, FileB, FileC}

\* file contents
Contents == {"c0", "c1"}

VARIABLES
  \* project state (IDE.tsx 144-148, 187-197)
  projectPath, projectTree, projectStats, projectName, projectLoading,
  error, recentProjects, showRecentProjects, expandedPaths,
  indexing, indexStatus, showAnalysisSuggestion, autoIndexingDone, offered,
  \* file state (IDE.tsx 151-153, 214-215)
  openFiles, activeFile, saving, saveStatus,
  \* generation and panels (IDE.tsx 157, 186); clickTimers counts the pending
  \* setTimeout clicks on the analyze button (IDE.tsx 773-776)
  generating, bottomPanelOpen, clickTimers,
  \* analysis state (IDE.tsx 172-182)
  analyzing, analysisResult, analysisType, customQuestion,
  progressStage, progressMessage, progressPercent, progressDetails,
  \* modal and menu flags (IDE.tsx 206-218)
  showCommandPalette, contextMenu, showShortcutsHint,
  \* in-flight asynchronous invocations; offered (above) is history: the
  \* project paths for which the analysis suggestion was raised
  opens, indexes, reads, saves, deletes, gens, runs

projectVars == <<projectPath, projectTree, projectStats, projectName, projectLoading,
                 recentProjects, showRecentProjects, expandedPaths,
                 indexing, indexStatus, showAnalysisSuggestion, autoIndexingDone, offered,
                 opens, indexes>>
fileVars == <<openFiles, activeFile>>
saveVars == <<saving, saveStatus, saves>>
analysisVars == <<analyzing, analysisResult, analysisType, customQuestion,
                  progressStage, progressMessage, progressPercent, progressDetails,
                  runs>>
modalVars == <<showCommandPalette, contextMenu, showShortcutsHint>>
asyncFileVars == <<reads, deletes, gens>>
genVars == <<generating, clickTimers>>

vars == <<projectVars, error, fileVars, saveVars, analysisVars, modalVars,
          asyncFileVars, genVars, bottomPanelOpen>>

(* ------------------------------ helpers -------------------------------- *)
One(x) == SetToBag({x})

Last(s) == s[Len(s)]

\* projectPath.endsWith('/') ? `${projectPath}${rel}` : `${projectPath}/${rel}`
FullPath(root, rel) ==
  IF Len(root) > 0 /\ Last(root) = SLASH THEN root \o rel ELSE root \o <<SLASH>> \o rel

\* targetPath.startsWith('__new__/')
StartsWithNew(path) == Len(path) >= 2 /\ path[1] = "__new__" /\ path[2] = SLASH

\* `__new__/${name}`
NewPath(name) == <<"__new__", SLASH>> \o name

\* openFiles.map(f => f.path)
PathsOf(files) == [i \in DOMAIN files |-> files[i].path]

\* openFiles.find(f => f.path === path) !== undefined
IsOpen(files, path) == \E i \in DOMAIN files : files[i].path = path

\* openFiles.find(f => f.path === path): the first match
Find(files, path) ==
  files[CHOOSE i \in DOMAIN files :
          /\ files[i].path = path
          /\ \A j \in DOMAIN files : files[j].path = path => i <= j]

\* prev.filter(f => f.path !== path)
Without(files, path) ==
  LET Keep(f) == f.path # path IN SelectSeq(files, Keep)

\* remaining.length > 0 ? remaining[remaining.length - 1].path : null,
\* remaining being a list of paths
LastOrNull(paths) == IF Len(paths) > 0 THEN Last(paths) ELSE NoPath

\* openFiles.filter(f => f.path !== path) projected on the paths
PathsWithout(paths, path) ==
  LET Keep(p) == p # path IN SelectSeq(paths, Keep)

Init ==
  /\ projectPath = <<>>
  /\ projectTree = NoTree
  /\ projectStats = NoTree
  /\ projectName = NoTree
  /\ projectLoading = FALSE
  /\ error = ""
  /\ recentProjects = <<>>
  /\ showRecentProjects = FALSE
  /\ expandedPaths = {<<".">>}
  /\ indexing = FALSE
  /\ indexStatus = "none"
  /\ showAnalysisSuggestion = FALSE
  /\ autoIndexingDone = FALSE
  /\ offered = {}
  /\ openFiles = <<>>
  /\ activeFile = NoPath
  /\ saving = FALSE
  /\ saveStatus = "none"
  /\ generating = FALSE
  /\ bottomPanelOpen = FALSE
  /\ clickTimers = 0
  /\ analyzing = FALSE
  /\ analysisResult = [kind |-> "none", value |-> ""]
  /\ analysisType = "comprehensive"
  /\ customQuestion = <<>>
  /\ progressStage = ""
  /\ progressMessage = ""
  /\ progressPercent = 0
  /\ progressDetails = [present |-> FALSE, result |-> ""]
  /\ showCommandPalette = FALSE
  /\ contextMenu = NoPath
  /\ showShortcutsHint = FALSE
  /\ opens = EmptyBag
  /\ indexes = EmptyBag
  /\ reads = EmptyBag
  /\ saves = EmptyBag
  /\ deletes = EmptyBag
  /\ gens = EmptyBag
  /\ runs = EmptyBag


(* ======================= project lifecycle ============================= *)

\* variant: the path is put in front without being filtered out first
SaveRecentUnfiltered(recent, path) ==
  LET moved == <<path>> \o recent
  IN  SubSeq(moved, 1, IF Len(moved) < MAX_RECENT_PROJECTS THEN Len(moved)
                       ELSE MAX_RECENT_PROJECTS)

\* saveRecentProject: filter out, unshift, slice(0, MAX_RECENT_PROJECTS)
SaveRecent(recent, path) ==
  LET Other(p) == p # path
      moved == <<path>> \o SelectSeq(recent, Other)
  IN  SubSeq(moved, 1, IF Len(moved) < MAX_RECENT_PROJECTS THEN Len(moved)
                       ELSE MAX_RECENT_PROJECTS)

\* handleOpenProject up to its first await, called with the project path of
\* the caller's closure: const path = pathOverride || projectPath
OpenProjectCall(pathOverride, closurePath) ==
  LET path == IF pathOverride # <<>> THEN pathOverride ELSE closurePath IN
  IF path = <<>>
  THEN UNCHANGED <<projectLoading, error, showRecentProjects, opens>>
  ELSE /\ projectLoading' = TRUE
       /\ error' = ""
       /\ showRecentProjects' = FALSE
       /\ opens' = opens (+) One([path |-> path])

\* the project-path input: onChange={(e) => setProjectPath(e.target.value)}
TypeProjectPath(value) ==
  /\ projectPath' = value
  /\ UNCHANGED <<projectTree, projectStats, projectName, projectLoading,
                 recentProjects, showRecentProjects, expandedPaths,
                 indexing, indexStatus, showAnalysisSuggestion, autoIndexingDone, offered,
                 opens, indexes>>
  /\ UNCHANGED <<error, fileVars, saveVars, analysisVars, modalVars,
                 asyncFileVars, genVars, bottomPanelOpen>>

\* handleOpenProject(pathOverride) invoked by the user: Enter in the path input
\* (pathOverride empty), a recent-project button or the folder browser
OpenProject(pathOverride) ==
  /\ OpenProjectCall(pathOverride, projectPath)
  /\ UNCHANGED <<projectPath, projectTree, projectStats, projectName,
                 recentProjects, expandedPaths, indexing, indexStatus,
                 showAnalysisSuggestion, autoIndexingDone, offered, indexes>>
  /\ UNCHANGED <<fileVars, saveVars, analysisVars, modalVars, asyncFileVars, genVars, bottomPanelOpen>>

\* variant: the open response leaves the expanded folders as they are
FetchOkKeepsExpanded(r) ==
  /\ r \in BagToSet(opens)
  /\ opens' = opens (-) One(r)
  /\ projectTree' = r.path
  /\ projectStats' = r.path
  /\ projectName' = r.path
  /\ projectPath' = r.path
  /\ recentProjects' = SaveRecent(recentProjects, r.path)
  /\ autoIndexingDone' = FALSE
  /\ indexing' = TRUE
  /\ indexStatus' = "indexing"
  /\ indexes' = indexes (+) One([path |-> r.path, auto |-> TRUE])
  /\ UNCHANGED <<projectLoading, showRecentProjects, showAnalysisSuggestion,
                 offered, expandedPaths>>
  /\ UNCHANGED <<error, fileVars, saveVars, analysisVars, modalVars,
                 asyncFileVars, genVars, bottomPanelOpen>>

\* the tree fetch answers ok: cache replaced, recent list updated, and the
\* auto-indexing request is issued by the same invocation
FetchOk(r) ==
  /\ r \in BagToSet(opens)
  /\ opens' = opens (-) One(r)
  /\ projectTree' = r.path
  /\ projectStats' = r.path
  /\ projectName' = r.path
  /\ expandedPaths' = {<<".">>}
  /\ projectPath' = r.path
  /\ recentProjects' = SaveRecent(recentProjects, r.path)
  /\ autoIndexingDone' = FALSE
  /\ indexing' = TRUE
  /\ indexStatus' = "indexing"
  /\ indexes' = indexes (+) One([path |-> r.path, auto |-> TRUE])
  /\ UNCHANGED <<projectLoading, showRecentProjects, showAnalysisSuggestion, offered>>
  /\ UNCHANGED <<error, fileVars, saveVars, analysisVars, modalVars,
                 asyncFileVars, genVars, bottomPanelOpen>>

\* toggleExpand(path): a click on a folder of the tree
ToggleExpand(path) ==
  /\ projectTree # NoTree
  /\ expandedPaths' = IF path \in expandedPaths
                      THEN expandedPaths \ {path}
                      ELSE expandedPaths \cup {path}
  /\ UNCHANGED <<projectPath, projectTree, projectStats, projectName,
                 projectLoading, recentProjects, showRecentProjects,
                 indexing, indexStatus, showAnalysisSuggestion,
                 autoIndexingDone, offered, opens, indexes>>
  /\ UNCHANGED <<error, fileVars, saveVars, analysisVars, modalVars,
                 asyncFileVars, genVars, bottomPanelOpen>>

\* variant: a failed fetch drops the cached tree
FetchFailClearsTree(r) ==
  /\ r \in BagToSet(opens)
  /\ opens' = opens (-) One(r)
  /\ error' = "openFailed"
  /\ projectLoading' = FALSE
  /\ projectTree' = NoTree
  /\ UNCHANGED <<projectPath, projectStats, projectName,
                 recentProjects, showRecentProjects, expandedPaths,
                 indexing, indexStatus, showAnalysisSuggestion, autoIndexingDone, offered,
                 indexes>>
  /\ UNCHANGED <<fileVars, saveVars, analysisVars, modalVars, asyncFileVars, genVars, bottomPanelOpen>>

\* the tree fetch fails (response not ok, or the request throws)
FetchFail(r) ==
  /\ r \in BagToSet(opens)
  /\ opens' = opens (-) One(r)
  /\ error' = "openFailed"
  /\ projectLoading' = FALSE
  /\ UNCHANGED <<projectPath, projectTree, projectStats, projectName,
                 recentProjects, showRecentProjects, expandedPaths,
                 indexing, indexStatus, showAnalysisSuggestion, autoIndexingDone, offered,
                 indexes>>
  /\ UNCHANGED <<fileVars, saveVars, analysisVars, modalVars, asyncFileVars, genVars, bottomPanelOpen>>

\* the auto-indexing request of handleOpenProject succeeds
IndexOk(r) ==
  /\ r \in BagToSet(indexes)
  /\ r.auto
  /\ indexes' = indexes (-) One(r)
  /\ indexStatus' = "indexed"
  /\ autoIndexingDone' = TRUE
  /\ showAnalysisSuggestion' = TRUE
  /\ offered' = offered \cup {r.path}
  /\ indexing' = FALSE
  /\ projectLoading' = FALSE
  /\ UNCHANGED <<projectPath, projectTree, projectStats, projectName,
                 recentProjects, showRecentProjects, expandedPaths, opens>>
  /\ UNCHANGED <<error, fileVars, saveVars, analysisVars, modalVars,
                 asyncFileVars, genVars, bottomPanelOpen>>

\* variant: the indexing failure is reported through the global error
IndexFailFatal(r) ==
  /\ r \in BagToSet(indexes)
  /\ r.auto
  /\ indexes' = indexes (-) One(r)
  /\ indexStatus' = "failed"
  /\ error' = "indexFailed"
  /\ indexing' = FALSE
  /\ projectLoading' = FALSE
  /\ UNCHANGED <<projectPath, projectTree, projectStats, projectName,
                 recentProjects, showRecentProjects, expandedPaths,
                 showAnalysisSuggestion, autoIndexingDone, offered, opens>>
  /\ UNCHANGED <<fileVars, saveVars, analysisVars, modalVars,
                 asyncFileVars, genVars, bottomPanelOpen>>

\* the auto-indexing request of handleOpenProject fails
IndexFail(r) ==
  /\ r \in BagToSet(indexes)
  /\ r.auto
  /\ indexes' = indexes (-) One(r)
  /\ indexStatus' = "failed"
  /\ indexing' = FALSE
  /\ projectLoading' = FALSE
  /\ UNCHANGED <<projectPath, projectTree, projectStats, projectName,
                 recentProjects, showRecentProjects, expandedPaths,
                 showAnalysisSuggestion, autoIndexingDone, offered, opens>>
  /\ UNCHANGED <<error, fileVars, saveVars, analysisVars, modalVars,
                 asyncFileVars, genVars, bottomPanelOpen>>

\* handleIndexProject up to its await: the re-index button, rendered when
\* the index status is shown, no indexing runs and the auto-indexing is done
HandleIndexProject ==
  /\ ~(showAnalysisSuggestion /\ autoIndexingDone)
  /\ indexStatus # "none" /\ ~indexing /\ autoIndexingDone
  /\ projectPath # <<>>
  /\ indexing' = TRUE
  /\ indexStatus' = "none"
  /\ indexes' = indexes (+) One([path |-> projectPath, auto |-> FALSE])
  /\ UNCHANGED <<projectPath, projectTree, projectStats, projectName, projectLoading,
                 recentProjects, showRecentProjects, expandedPaths,
                 showAnalysisSuggestion, autoIndexingDone, offered, opens>>
  /\ UNCHANGED <<error, fileVars, saveVars, analysisVars, modalVars,
                 asyncFileVars, genVars, bottomPanelOpen>>

\* the request of handleIndexProject settles: status set, indexing cleared
ManualIndexSettles(r, status) ==
  /\ r \in BagToSet(indexes)
  /\ ~r.auto
  /\ indexes' = indexes (-) One(r)
  /\ indexStatus' = status
  /\ indexing' = FALSE
  /\ UNCHANGED <<projectPath, projectTree, projectStats, projectName, projectLoading,
                 recentProjects, showRecentProjects, expandedPaths,
                 showAnalysisSuggestion, autoIndexingDone, offered, opens>>
  /\ UNCHANGED <<error, fileVars, saveVars, analysisVars, modalVars,
                 asyncFileVars, genVars, bottomPanelOpen>>

(* ========================= document model ============================== *)

\* handleFileClick up to its await: a file of the rendered tree (or of the
\* quick-search list) is clicked
FileClick(path) ==
  /\ ~(showAnalysisSuggestion /\ autoIndexingDone) \/ showCommandPalette
  /\ projectTree # NoTree
  /\ IF IsOpen(openFiles, path)
     THEN /\ activeFile' = path
          /\ UNCHANGED reads
     ELSE /\ reads' = reads (+) One([path |-> path,
                                     fullPath |-> FullPath(projectPath, path)])
          /\ UNCHANGED activeFile
  /\ UNCHANGED <<openFiles, deletes, gens>>
  /\ UNCHANGED <<projectVars, error, saveVars, analysisVars, modalVars, genVars, bottomPanelOpen>>

\* read-file answers with text content
ReadOk(r, content) ==
  /\ r \in BagToSet(reads)
  /\ reads' = reads (-) One(r)
  /\ openFiles' = Append(openFiles, [path |-> r.path, content |-> content,
                                     isDirty |-> FALSE, isNew |-> FALSE,
                                     persisted |-> content])
  /\ activeFile' = r.path
  /\ UNCHANGED <<deletes, gens>>
  /\ UNCHANGED <<projectVars, error, saveVars, analysisVars, modalVars, genVars, bottomPanelOpen>>

\* variant: a binary answer is opened like a text answer
ReadBinaryDecoded(r) ==
  /\ r \in BagToSet(reads)
  /\ reads' = reads (-) One(r)
  /\ openFiles' = Append(openFiles, [path |-> r.path, content |-> "c0",
                                     isDirty |-> FALSE, isNew |-> FALSE,
                                     persisted |-> "c0"])
  /\ activeFile' = r.path
  /\ UNCHANGED <<error, deletes, gens>>
  /\ UNCHANGED <<projectVars, saveVars, analysisVars, modalVars, genVars, bottomPanelOpen>>

\* read-file answers is_binary
ReadBinary(r) ==
  /\ r \in BagToSet(reads)
  /\ reads' = reads (-) One(r)
  /\ error' = "binaryFile"
  /\ UNCHANGED <<openFiles, activeFile, deletes, gens>>
  /\ UNCHANGED <<projectVars, saveVars, analysisVars, modalVars, genVars, bottomPanelOpen>>

\* read-file fails
ReadFail(r) ==
  /\ r \in BagToSet(reads)
  /\ reads' = reads (-) One(r)
  /\ error' = "readFailed"
  /\ UNCHANGED <<openFiles, activeFile, deletes, gens>>
  /\ UNCHANGED <<projectVars, saveVars, analysisVars, modalVars, genVars, bottomPanelOpen>>

\* a tab is clicked: onClick={() => setActiveFile(file.path)}
SelectTab(path) ==
  /\ ~(showAnalysisSuggestion /\ autoIndexingDone)
  /\ IsOpen(openFiles, path)
  /\ activeFile' = path
  /\ UNCHANGED <<openFiles, reads, deletes, gens>>
  /\ UNCHANGED <<projectVars, error, saveVars, analysisVars, modalVars, genVars, bottomPanelOpen>>

\* the close of a document, as handleCloseFile and the close-tab shortcut do it
\* a close that drops the document and leaves the active path as it was
CloseKeepsActive(path) ==
  /\ openFiles' = Without(openFiles, path)
  /\ UNCHANGED activeFile

\* variant: the first remaining document becomes the active one
CloseSelectsFirst(path) ==
  /\ openFiles' = Without(openFiles, path)
  /\ IF activeFile = path
     THEN activeFile' = LET rest == PathsWithout(PathsOf(openFiles), path)
                        IN  IF Len(rest) > 0 THEN Head(rest) ELSE NoPath
     ELSE UNCHANGED activeFile

CloseEffect(path) ==
  /\ openFiles' = Without(openFiles, path)
  /\ IF activeFile = path
     THEN activeFile' = LastOrNull(PathsWithout(PathsOf(openFiles), path))
     ELSE UNCHANGED activeFile

\* handleCloseFile: the close button of a tab
HandleCloseFile(path) ==
  /\ ~(showAnalysisSuggestion /\ autoIndexingDone)
  /\ IsOpen(openFiles, path)
  /\ CloseEffect(path)
  /\ UNCHANGED <<reads, deletes, gens>>
  /\ UNCHANGED <<projectVars, error, saveVars, analysisVars, modalVars, genVars, bottomPanelOpen>>

\* an edit that marks the document dirty only when the content changes
EditorChangeIfDifferent(value) ==
  /\ IsOpen(openFiles, activeFile)
  /\ openFiles' = [i \in DOMAIN openFiles |->
                     IF openFiles[i].path = activeFile
                     THEN [openFiles[i] EXCEPT
                             !.content = value,
                             !.isDirty = openFiles[i].isDirty \/ value # openFiles[i].content]
                     ELSE openFiles[i]]
  /\ UNCHANGED <<activeFile, reads, deletes, gens>>
  /\ UNCHANGED <<projectVars, error, saveVars, analysisVars, modalVars, genVars, bottomPanelOpen>>

\* handleEditorChange(value, activeFileContent.path): the editor is mounted on
\* the active document only
\* variant: the edited document is moved to the end of the open list
EditorChangeMovesLast(value) ==
  /\ IsOpen(openFiles, activeFile)
  /\ openFiles' = Without(openFiles, activeFile)
                    \o <<[Find(openFiles, activeFile) EXCEPT !.content = value,
                                                             !.isDirty = TRUE]>>
  /\ UNCHANGED <<activeFile, reads, deletes, gens>>
  /\ UNCHANGED <<projectVars, error, saveVars, analysisVars, modalVars, genVars, bottomPanelOpen>>

HandleEditorChange(value) ==
  /\ IsOpen(openFiles, activeFile)
  /\ openFiles' = [i \in DOMAIN openFiles |->
                     IF openFiles[i].path = activeFile
                     THEN [openFiles[i] EXCEPT !.content = value, !.isDirty = TRUE]
                     ELSE openFiles[i]]
  /\ UNCHANGED <<activeFile, reads, deletes, gens>>
  /\ UNCHANGED <<projectVars, error, saveVars, analysisVars, modalVars, genVars, bottomPanelOpen>>


(* ============================== saving ================================= *)

\* a save that issues the write without looking at the synthetic marker
SaveCallUnchecked(st, path) ==
  LET targetPath == IF path # NoPath THEN path ELSE activeFile IN
  IF targetPath = NoPath \/ ~IsOpen(openFiles, targetPath)
  THEN st
  ELSE LET file == Find(openFiles, targetPath) IN
       [saves |-> st.saves (+) One([path |-> targetPath,
                                    fullPath |-> FullPath(projectPath, targetPath),
                                    content |-> file.content]),
        saving |-> TRUE,
        saveStatus |-> "none"]

\* handleSaveFile(path) up to its await, as a function of the save state
\* st = [saves, saving, saveStatus]; path is empty when the argument is
\* omitted (const targetPath = path || activeFile)
SaveCall(st, path) ==
  LET targetPath == IF path # NoPath THEN path ELSE activeFile IN
  IF targetPath = NoPath \/ ~IsOpen(openFiles, targetPath)
  THEN st
  ELSE LET file == Find(openFiles, targetPath) IN
       IF file.isNew \/ StartsWithNew(targetPath)
       THEN [st EXCEPT !.saveStatus = "notSavable"]
       ELSE [saves |-> st.saves (+) One([path |-> targetPath,
                                         fullPath |-> FullPath(projectPath, targetPath),
                                         content |-> file.content]),
             saving |-> TRUE,
             saveStatus |-> "none"]

SaveState == [saves |-> saves, saving |-> saving, saveStatus |-> saveStatus]

\* paths.forEach(p => handleSaveFile(p))
RECURSIVE SaveEach(_, _)
SaveEach(st, paths) ==
  IF paths = <<>> THEN st ELSE SaveEach(SaveCall(st, Head(paths)), Tail(paths))

\* variant: a filter that keeps the clean documents
AllOnDisk(files) ==
  LET Pick(f) == ~f.isNew IN SelectSeq(files, Pick)

\* openFiles.filter(f => f.isDirty && !f.isNew)
DirtyOnDisk(files) ==
  LET Pick(f) == f.isDirty /\ ~f.isNew IN SelectSeq(files, Pick)

SetSaveState(st) ==
  /\ saves' = st.saves
  /\ saving' = st.saving
  /\ saveStatus' = st.saveStatus

\* handleSaveFile invoked from a button: the toolbar button (no argument;
\* disabled while saving, without an active document or when it is clean) or
\* the dirty marker of a tab that is on disk (path given)
HandleSaveFile(path) ==
  /\ ~(showAnalysisSuggestion /\ autoIndexingDone)
  /\ IF path = NoPath
     THEN /\ ~saving
          /\ IsOpen(openFiles, activeFile)
          /\ Find(openFiles, activeFile).isDirty
     ELSE \E i \in DOMAIN openFiles :
            /\ openFiles[i].path = path
            /\ openFiles[i].isDirty
            /\ ~openFiles[i].isNew
  /\ SetSaveState(SaveCall(SaveState, path))
  /\ UNCHANGED <<projectVars, error, fileVars, analysisVars, modalVars,
                 asyncFileVars, genVars, bottomPanelOpen>>

\* writeFile resolves: the dirty flag of the documents at that path is cleared
WriteOk(r) ==
  /\ r \in BagToSet(saves)
  /\ saves' = saves (-) One(r)
  /\ openFiles' = [i \in DOMAIN openFiles |->
                     IF openFiles[i].path = r.path
                     THEN [openFiles[i] EXCEPT !.isDirty = FALSE,
                                               !.persisted = r.content]
                     ELSE openFiles[i]]
  /\ saveStatus' = "saved"
  /\ saving' = FALSE
  /\ UNCHANGED activeFile
  /\ UNCHANGED <<projectVars, error, analysisVars, modalVars, asyncFileVars, genVars, bottomPanelOpen>>

\* a rejected write that gives up the writes still in flight
WriteFailAbortsAll(r) ==
  /\ r \in BagToSet(saves)
  /\ saves' = EmptyBag
  /\ saveStatus' = "writeError"
  /\ saving' = FALSE
  /\ UNCHANGED <<projectVars, error, fileVars, analysisVars, modalVars,
                 asyncFileVars, genVars, bottomPanelOpen>>

\* writeFile rejects
WriteFail(r) ==
  /\ r \in BagToSet(saves)
  /\ saves' = saves (-) One(r)
  /\ saveStatus' = "writeError"
  /\ saving' = FALSE
  /\ UNCHANGED <<projectVars, error, fileVars, analysisVars, modalVars,
                 asyncFileVars, genVars, bottomPanelOpen>>

\* setTimeout(() => setSaveStatus(null), ...): a timer is pending whenever a
\* status is shown
ClearSaveStatus ==
  /\ saveStatus # "none"
  /\ saveStatus' = "none"
  /\ UNCHANGED <<saving, saves>>
  /\ UNCHANGED <<projectVars, error, fileVars, analysisVars, modalVars,
                 asyncFileVars, genVars, bottomPanelOpen>>

(* ========================= keyboard dispatcher ========================= *)

\* key events: modKey is metaKey or ctrlKey by platform
Key(mod, shift, key) == [mod |-> mod, shift |-> shift, key |-> key]
CtrlS == Key(TRUE, FALSE, "s")
CtrlP == Key(TRUE, FALSE, "p")
CtrlW == Key(TRUE, FALSE, "w")
CtrlK == Key(TRUE, FALSE, "k")
CtrlShiftS == Key(TRUE, TRUE, "S")
Escape == Key(FALSE, FALSE, "Escape")
PlainX == Key(FALSE, FALSE, "x")

\* a table that takes the keys s and S alike: mod+S without shift saves
BindingAnyCase(e) ==
  IF e.mod /\ e.key \in {"s", "S"} /\ ~e.shift THEN "save"
  ELSE IF e.mod /\ e.key = "p" THEN "palette"
  ELSE IF e.mod /\ e.key = "w" THEN "close"
  ELSE IF e.key = "Escape" THEN "escape"
  ELSE IF e.mod /\ e.shift /\ e.key \in {"s", "S"} THEN "saveAll"
  ELSE IF e.mod /\ e.key = "k" THEN "hint"
  ELSE "none"

\* a table in which the save-all entry is tested first and takes the S key
\* in either case
BindingSaveAllFirst(e) ==
  IF e.mod /\ e.key \in {"s", "S"} THEN "saveAll"
  ELSE IF e.mod /\ e.key = "p" THEN "palette"
  ELSE IF e.mod /\ e.key = "w" THEN "close"
  ELSE IF e.key = "Escape" THEN "escape"
  ELSE IF e.mod /\ e.key = "k" THEN "hint"
  ELSE "none"

\* the branch of handleKeyDown an event takes, tested in the code's order
Binding(e) ==
  IF e.mod /\ e.key = "s" THEN "save"
  ELSE IF e.mod /\ e.key = "p" THEN "palette"
  ELSE IF e.mod /\ e.key = "w" THEN "close"
  ELSE IF e.key = "Escape" THEN "escape"
  ELSE IF e.mod /\ e.shift /\ e.key = "S" THEN "saveAll"
  ELSE IF e.mod /\ e.key = "k" THEN "hint"
  ELSE "none"

\* e.preventDefault(): called by every branch but the Escape one
PreventsDefault(e) == Binding(e) \in {"save", "palette", "close", "saveAll", "hint"}

\* the key events looked at: each key with and without the modifiers
Keys == [mod : BOOLEAN, shift : BOOLEAN,
         key : {"s", "S", "p", "w", "k", "x", "Escape"}]

\* the key combinations handleKeyDown tests for
InBindingTable(e) ==
  \/ e.mod /\ e.key = "s"
  \/ e.mod /\ e.key = "p"
  \/ e.mod /\ e.key = "w"
  \/ e.key = "Escape"
  \/ e.mod /\ e.shift /\ e.key = "S"
  \/ e.mod /\ e.key = "k"

\* handleKeyDown
KeyDown(e) ==
  LET b == Binding(e) IN
  /\ SetSaveState(IF b = "save" THEN SaveCall(SaveState, NoPath)
                  ELSE IF b = "saveAll"
                       THEN SaveEach(SaveState, PathsOf(DirtyOnDisk(openFiles)))
                       ELSE SaveState)
  /\ IF b = "close" /\ activeFile # NoPath
     THEN CloseEffect(activeFile)
     ELSE UNCHANGED fileVars
  /\ showCommandPalette' = IF b = "palette" THEN TRUE
                           ELSE IF b = "escape" THEN FALSE ELSE showCommandPalette
  /\ contextMenu' = IF b = "escape" THEN NoPath ELSE contextMenu
  /\ showShortcutsHint' = IF b = "hint" THEN ~showShortcutsHint ELSE showShortcutsHint
  /\ UNCHANGED <<projectVars, error, analysisVars, asyncFileVars, genVars, bottomPanelOpen>>



(* ====================== context menu and delete ======================== *)

\* the analysis-suggestion modal covers the window (fixed inset-0) while
\* showAnalysisSuggestion && autoIndexingDone: the controls under it take no
\* click; key events and the focused editor are not affected
Clickable == ~(showAnalysisSuggestion /\ autoIndexingDone)

\* right click on a file of the tree: setContextMenu({x, y, file})
OpenContextMenu(path) ==
  /\ Clickable
  /\ projectTree # NoTree
  /\ contextMenu' = path
  /\ UNCHANGED <<showCommandPalette, showShortcutsHint>>
  /\ UNCHANGED <<projectVars, error, fileVars, saveVars, analysisVars,
                 asyncFileVars, genVars, bottomPanelOpen>>

\* handleDeleteFile(contextMenu.file) up to its await; the click then bubbles
\* to the menu container, which closes the menu
HandleDeleteFile ==
  /\ contextMenu # NoPath
  /\ deletes' = deletes (+) One([path |-> contextMenu,
                                 fullPath |-> FullPath(projectPath, contextMenu),
                                 activeFile |-> activeFile,
                                 openPaths |-> PathsOf(openFiles),
                                 projectPath |-> projectPath])
  /\ contextMenu' = NoPath
  /\ UNCHANGED <<showCommandPalette, showShortcutsHint, reads, gens>>
  /\ UNCHANGED <<projectVars, error, fileVars, saveVars, analysisVars,
                 genVars, bottomPanelOpen>>

\* deleteFile resolves: the document is closed with the active document and
\* the open list the handler captured, and the tree refresh is started
DeleteOk(r) ==
  /\ r \in BagToSet(deletes)
  /\ deletes' = deletes (-) One(r)
  /\ openFiles' = Without(openFiles, r.path)
  /\ IF r.activeFile = r.path
     THEN activeFile' = LastOrNull(PathsWithout(r.openPaths, r.path))
     ELSE UNCHANGED activeFile
  /\ OpenProjectCall(<<>>, r.projectPath)
  /\ contextMenu' = NoPath
  /\ UNCHANGED <<projectPath, projectTree, projectStats, projectName,
                 recentProjects, expandedPaths, indexing, indexStatus,
                 showAnalysisSuggestion, autoIndexingDone, offered, indexes>>
  /\ UNCHANGED <<showCommandPalette, showShortcutsHint, reads, gens>>
  /\ UNCHANGED <<saveVars, analysisVars, genVars, bottomPanelOpen>>

\* variant: the tree is refreshed after a rejected delete as well
DeleteFailRefreshes(r) ==
  /\ r \in BagToSet(deletes)
  /\ deletes' = deletes (-) One(r)
  /\ projectLoading' = TRUE
  /\ error' = "deleteFailed"
  /\ showRecentProjects' = FALSE
  /\ opens' = opens (+) One([path |-> r.projectPath])
  /\ UNCHANGED <<projectPath, projectTree, projectStats, projectName,
                 recentProjects, expandedPaths, indexing, indexStatus,
                 showAnalysisSuggestion, autoIndexingDone, offered, indexes>>
  /\ UNCHANGED <<reads, gens>>
  /\ UNCHANGED <<fileVars, saveVars, analysisVars, modalVars,
                 genVars, bottomPanelOpen>>

\* deleteFile rejects
DeleteFail(r) ==
  /\ r \in BagToSet(deletes)
  /\ deletes' = deletes (-) One(r)
  /\ error' = "deleteFailed"
  /\ UNCHANGED <<reads, gens>>
  /\ UNCHANGED <<projectVars, fileVars, saveVars, analysisVars, modalVars,
                 genVars, bottomPanelOpen>>

(* ===================== synthetic documents, generation ================= *)

\* createNewFile(name, content, lang), with the open list of its closure
CreateNewFile(name, content, closurePaths) ==
  LET path == NewPath(name)
      existing == \E i \in DOMAIN closurePaths : closurePaths[i] = path
  IN  /\ openFiles' =
           IF existing
           THEN [i \in DOMAIN openFiles |->
                   IF openFiles[i].path = path
                   THEN [openFiles[i] EXCEPT !.content = content, !.isDirty = TRUE]
                   ELSE openFiles[i]]
           ELSE Append(openFiles, [path |-> path, content |-> content,
                                   isDirty |-> TRUE, isNew |-> TRUE,
                                   persisted |-> ""])
      /\ activeFile' = path

\* the "new file" button: createNewFile('untitled.py', '# ...', 'python')
NewFileButton ==
  /\ Clickable
  /\ CreateNewFile(<<"untitled", ".", "py">>, "c0", PathsOf(openFiles))
  /\ UNCHANGED <<projectVars, error, saveVars, analysisVars, modalVars,
                 asyncFileVars, genVars, bottomPanelOpen>>

\* a task is a sequence of lower-case words; analysisPatterns, word by word
AnalysisPatterns == {<<"analyze", "project">>, <<"project", "analysis">>,
                     <<"review", "project">>}

\* analysisPatterns.some(pattern => lower.includes(pattern))
IsProjectAnalysisRequest(task) ==
  \E pat \in AnalysisPatterns :
    \E i \in 1..Len(task) :
      i + Len(pat) - 1 <= Len(task) /\ SubSeq(task, i, i + Len(pat) - 1) = pat

\* detectLanguageFromCode(code, task).extension: the task patterns come
\* first; the contents of the model match none of the code patterns, which
\* leaves the default
DetectExtension(task) ==
  LET Has(w) == \E i \in 1..Len(task) : task[i] = w IN
  IF Has("python") THEN "py"
  ELSE IF Has("javascript") THEN "js"
  ELSE IF Has("typescript") THEN "ts"
  ELSE IF Has("html") THEN "html"
  ELSE "py"

\* words.join('_')
RECURSIVE JoinWords(_)
JoinWords(words) ==
  IF Len(words) = 0 THEN <<>>
  ELSE IF Len(words) = 1 THEN words
  ELSE <<Head(words), "_">> \o JoinWords(Tail(words))

\* `${task words .slice(0, 3).join('_')}.${extension}`
GeneratedFileName(task) ==
  JoinWords(SubSeq(task, 1, IF Len(task) < 3 THEN Len(task) ELSE 3))
    \o <<".", DetectExtension(task)>>

\* handleGenerate up to its await (Enter in the task input, or the button
\* while no generation is running)
HandleGenerate(task) ==
  IF task = <<>>
  THEN UNCHANGED vars
  ELSE IF IsProjectAnalysisRequest(task) /\ projectPath # <<>>
  THEN /\ customQuestion' = task
       /\ analysisType' = "comprehensive"
       /\ clickTimers' = clickTimers + 1
       /\ UNCHANGED <<analyzing, analysisResult, progressStage, progressMessage,
                      progressPercent, progressDetails, runs>>
       /\ UNCHANGED <<generating, gens, error, reads, deletes>>
       /\ UNCHANGED <<projectVars, fileVars, saveVars, modalVars, bottomPanelOpen>>
  ELSE /\ generating' = TRUE
       /\ error' = ""
       /\ gens' = gens (+) One([task |-> task, openPaths |-> PathsOf(openFiles)])
       /\ UNCHANGED <<clickTimers, reads, deletes>>
       /\ UNCHANGED <<projectVars, fileVars, saveVars, analysisVars, modalVars,
                      bottomPanelOpen>>

\* executeTask answers with code
GenerateOk(r, code) ==
  /\ r \in BagToSet(gens)
  /\ gens' = gens (-) One(r)
  /\ CreateNewFile(GeneratedFileName(r.task), code, r.openPaths)
  /\ bottomPanelOpen' = TRUE
  /\ generating' = FALSE
  /\ UNCHANGED <<clickTimers, reads, deletes>>
  /\ UNCHANGED <<projectVars, error, saveVars, analysisVars, modalVars>>

\* executeTask answers without code ("noCode") or rejects ("generationFailed")
GenerateFail(r, message) ==
  /\ r \in BagToSet(gens)
  /\ gens' = gens (-) One(r)
  /\ error' = message
  /\ generating' = FALSE
  /\ UNCHANGED <<clickTimers, reads, deletes>>
  /\ UNCHANGED <<projectVars, fileVars, saveVars, analysisVars, modalVars,
                 bottomPanelOpen>>


(* ========================= analysis progress =========================== *)

\* tokens of the event stream: the markers "data: " and "event: ", the
\* newline, a JSON object (a progress frame, progress in tenths) and a
\* payload that does not parse
Tok(t) == [t |-> t, stage |-> "", message |-> "", progress |-> 0,
           details |-> FALSE, result |-> ""]
NL == Tok("nl")
DataMarker == Tok("data")
EventMarker == Tok("event")
BadJson == Tok("bad")
Frame(stage, message, progress, details, result) ==
  [t |-> "json", stage |-> stage, message |-> message, progress |-> progress,
   details |-> details, result |-> result]

\* buffer.split('\n\n'): cut at each pair of newlines, left to right
RECURSIVE SplitFrom(_, _, _)
SplitFrom(s, i, cur) ==
  IF i > Len(s) THEN <<cur>>
  ELSE IF i < Len(s) /\ s[i] = NL /\ s[i + 1] = NL
       THEN <<cur>> \o SplitFrom(s, i + 2, <<>>)
       ELSE SplitFrom(s, i + 1, Append(cur, s[i]))

SplitRecords(buffer) == SplitFrom(buffer, 1, <<>>)

\* line.startsWith('data: ')
StartsWithData(line) == Len(line) >= 1 /\ line[1] = DataMarker

\* JSON.parse(line.slice(6)): white space around the object is accepted
Payload(line) ==
  LET NotNL(t) == t # NL IN SelectSeq(Tail(line), NotNL)

Parses(line) == Len(Payload(line)) = 1 /\ Payload(line)[1].t = "json"

Max0(x) == IF x > 0 THEN x ELSE 0

\* a percent that is the reported fraction itself, not scaled to 100
PercentUnscaled(progress) == Max0(progress) \div 10

\* Math.max(0, event.progress) * 100, the progress being given in tenths
Percent(progress) == (Max0(progress) * 100) \div 10

\* the progress state the stream loop writes
ProgressState == [stage |-> progressStage, message |-> progressMessage,
                  percent |-> progressPercent, details |-> progressDetails,
                  result |-> analysisResult, error |-> error]

\* a loop body that reports a payload that does not parse as an error of
\* the run
ApplyRecordStrict(st, line) ==
  IF ~StartsWithData(line) THEN st
  ELSE IF ~Parses(line)
       THEN [st EXCEPT !.stage = "error", !.message = "parse",
                       !.error = "parse",
                       !.result = [kind |-> "error", value |-> "parse"]]
  ELSE LET event == Payload(line)[1]
           upd == [st EXCEPT !.stage = event.stage,
                             !.message = event.message,
                             !.percent = Percent(event.progress),
                             !.details = [present |-> event.details,
                                          result |-> event.result]]
       IN  IF event.stage = "completed" /\ event.details /\ event.result # ""
           THEN [upd EXCEPT !.result = [kind |-> "result", value |-> event.result]]
           ELSE IF event.stage = "error"
                THEN [upd EXCEPT !.error = event.message,
                                 !.result = [kind |-> "error", value |-> event.message]]
                ELSE upd

\* the body of the loop over the records of a chunk, for one record
ApplyRecord(st, line) ==
  IF ~(StartsWithData(line) /\ Parses(line)) THEN st
  ELSE LET event == Payload(line)[1]
           upd == [st EXCEPT !.stage = event.stage,
                             !.message = event.message,
                             !.percent = Percent(event.progress),
                             !.details = [present |-> event.details,
                                          result |-> event.result]]
       IN  IF event.stage = "completed" /\ event.details /\ event.result # ""
           THEN [upd EXCEPT !.result = [kind |-> "result", value |-> event.result]]
           ELSE IF event.stage = "error"
                THEN [upd EXCEPT !.error = event.message,
                                 !.result = [kind |-> "error", value |-> event.message]]
                ELSE upd

RECURSIVE ApplyRecords(_, _)
ApplyRecords(st, lines) ==
  IF lines = <<>> THEN st
  ELSE ApplyRecords(ApplyRecord(st, Head(lines)), Tail(lines))

IsTerminal(stage) == stage \in {"completed", "error"}

\* does a record of the list apply a frame with a terminal stage
AppliesTerminal(lines) ==
  \E i \in DOMAIN lines :
    /\ StartsWithData(lines[i])
    /\ Parses(lines[i])
    /\ IsTerminal(Payload(lines[i])[1].stage)

\* the progress state handleAnalyze sets before its request
StartState ==
  [stage |-> "starting", message |-> "starting", percent |-> 0,
   details |-> [present |-> FALSE, result |-> ""],
   result |-> [kind |-> "none", value |-> ""], error |-> ""]

\* a run that was in flight when a later run started
MarkStale(r) == [r EXCEPT !.stale = TRUE]

\* handleAnalyze up to its await, with the analysis type and question of the
\* caller's closure. A run's record holds what the invocation keeps (phase,
\* request, buffer) and its history: fed is all that its stream delivered,
\* readCount the number of reads that yielded a chunk, sawTerminal whether it
\* applied a terminal frame, stale whether a later run was started
AnalyzeCall(closureType, closureQuestion) ==
  IF projectPath = <<>>
  THEN /\ error' = "noProject"
       /\ UNCHANGED <<analyzing, analysisResult, progressStage, progressMessage,
                      progressPercent, progressDetails, runs, bottomPanelOpen>>
  ELSE /\ analyzing' = TRUE
       /\ analysisResult' = [kind |-> "none", value |-> ""]
       /\ error' = ""
       /\ progressStage' = "starting"
       /\ progressMessage' = "starting"
       /\ progressPercent' = 0
       /\ progressDetails' = [present |-> FALSE, result |-> ""]
       /\ bottomPanelOpen' = TRUE
       /\ runs' = BagOfAll(MarkStale, runs)
                    (+) One([phase |-> "fetch", projectPath |-> projectPath,
                             analysisType |-> closureType,
                             question |-> closureQuestion,
                             buffer |-> <<>>, sawTerminal |-> FALSE,
                             fed |-> <<>>, readCount |-> 0, stale |-> FALSE])

\* the analyze button (disabled while analyzing or without a project path)
HandleAnalyze ==
  /\ Clickable
  /\ ~analyzing
  /\ projectPath # <<>>
  /\ AnalyzeCall(analysisType, customQuestion)
  /\ UNCHANGED <<analysisType, customQuestion>>
  /\ UNCHANGED <<projectVars, fileVars, saveVars, modalVars, asyncFileVars, genVars>>

\* the timer set by handleGenerate clicks the analyze button
ClickTimer ==
  /\ clickTimers > 0
  /\ clickTimers' = clickTimers - 1
  /\ IF ~analyzing /\ projectPath # <<>>
     THEN AnalyzeCall(analysisType, customQuestion)
     ELSE UNCHANGED <<error, analyzing, analysisResult, progressStage,
                      progressMessage, progressPercent, progressDetails, runs,
                      bottomPanelOpen>>
  /\ UNCHANGED <<analysisType, customQuestion, generating>>
  /\ UNCHANGED <<projectVars, fileVars, saveVars, modalVars, asyncFileVars>>

\* the suggestion modal: "yes, analyze"
SuggestionAnalyze ==
  /\ showAnalysisSuggestion /\ autoIndexingDone
  /\ showAnalysisSuggestion' = FALSE
  /\ AnalyzeCall(analysisType, customQuestion)
  /\ UNCHANGED <<analysisType, customQuestion>>
  /\ UNCHANGED <<projectPath, projectTree, projectStats, projectName, projectLoading,
                 recentProjects, showRecentProjects, expandedPaths,
                 indexing, indexStatus, autoIndexingDone, offered, opens, indexes>>
  /\ UNCHANGED <<fileVars, saveVars, modalVars, asyncFileVars, genVars>>

\* the entries of the analysis-type menu
AnalysisTypes == {"comprehensive", "overview", "quality", "security", "performance"}

\* an entry of the analysis-type menu is clicked: setAnalysisType(type.id);
\* setShowAnalysisMenu(false); handleAnalyze(), the handleAnalyze of the
\* render in which the menu was drawn. The menu opens from a button that is
\* disabled while analyzing or without a project path
PickAnalysisType(type) ==
  /\ Clickable
  /\ ~analyzing
  /\ projectPath # <<>>
  /\ analysisType' = type
  /\ AnalyzeCall(analysisType, customQuestion)
  /\ UNCHANGED customQuestion
  /\ UNCHANGED <<projectVars, fileVars, saveVars, modalVars, asyncFileVars, genVars>>

\* the question input of the menu: onChange sets customQuestion
TypeCustomQuestion(question) ==
  /\ Clickable
  /\ ~analyzing
  /\ projectPath # <<>>
  /\ customQuestion' = question
  /\ UNCHANGED <<analyzing, analysisResult, analysisType, progressStage,
                 progressMessage, progressPercent, progressDetails, runs>>
  /\ UNCHANGED <<projectVars, error, fileVars, saveVars, modalVars,
                 asyncFileVars, genVars, bottomPanelOpen>>

\* Enter in the question input with a question typed:
\* setAnalysisType('custom'); setShowAnalysisMenu(false); handleAnalyze()
SubmitCustomQuestion ==
  /\ Clickable
  /\ ~analyzing
  /\ projectPath # <<>>
  /\ customQuestion # <<>>
  /\ analysisType' = "custom"
  /\ AnalyzeCall(analysisType, customQuestion)
  /\ UNCHANGED customQuestion
  /\ UNCHANGED <<projectVars, fileVars, saveVars, modalVars, asyncFileVars, genVars>>

\* the suggestion modal: "later"
SuggestionLater ==
  /\ showAnalysisSuggestion /\ autoIndexingDone
  /\ showAnalysisSuggestion' = FALSE
  /\ UNCHANGED <<projectPath, projectTree, projectStats, projectName, projectLoading,
                 recentProjects, showRecentProjects, expandedPaths,
                 indexing, indexStatus, autoIndexingDone, offered, opens, indexes>>
  /\ UNCHANGED <<error, fileVars, saveVars, analysisVars, modalVars,
                 asyncFileVars, genVars, bottomPanelOpen>>

\* variant: a catch block without the finally block, analyzing stays set
AnalyzeCatchStuck(r, message) ==
  /\ runs' = runs (-) One(r)
  /\ error' = message
  /\ progressStage' = "error"
  /\ progressMessage' = message
  /\ analysisResult' = [kind |-> "error", value |-> message]
  /\ UNCHANGED <<analyzing, progressPercent, progressDetails, analysisType,
                 customQuestion>>
  /\ UNCHANGED <<projectVars, fileVars, saveVars, modalVars, asyncFileVars,
                 genVars, bottomPanelOpen>>

\* the catch and finally blocks of handleAnalyze
AnalyzeCatch(r, message) ==
  /\ runs' = runs (-) One(r)
  /\ error' = message
  /\ progressStage' = "error"
  /\ progressMessage' = message
  /\ analysisResult' = [kind |-> "error", value |-> message]
  /\ analyzing' = FALSE
  /\ UNCHANGED <<progressPercent, progressDetails, analysisType, customQuestion>>
  /\ UNCHANGED <<projectVars, fileVars, saveVars, modalVars, asyncFileVars,
                 genVars, bottomPanelOpen>>

\* the analyze-stream request answers ok: the read loop starts
StreamOpen(r) ==
  /\ r \in BagToSet(runs)
  /\ r.phase = "fetch"
  /\ runs' = (runs (-) One(r)) (+) One([r EXCEPT !.phase = "read"])
  /\ UNCHANGED <<analyzing, analysisResult, analysisType, customQuestion,
                 progressStage, progressMessage, progressPercent, progressDetails>>
  /\ UNCHANGED <<projectVars, error, fileVars, saveVars, modalVars, asyncFileVars,
                 genVars, bottomPanelOpen>>

\* the request answers not ok, answers without a body, or rejects
StreamRefused(r) ==
  /\ r \in BagToSet(runs)
  /\ r.phase = "fetch"
  /\ AnalyzeCatch(r, "requestFailed")

\* a read loop that looks for records in the chunk alone and keeps nothing of
\* the previous read
ReadChunkNoCarry(r, chunk) ==
  /\ r \in BagToSet(runs)
  /\ r.phase = "read"
  /\ LET parts == SplitRecords(chunk)
         lines == SubSeq(parts, 1, Len(parts) - 1)
         st == ApplyRecords(ProgressState, lines)
     IN  /\ runs' = (runs (-) One(r))
                      (+) One([r EXCEPT !.buffer = Last(parts),
                                        !.sawTerminal = @ \/ AppliesTerminal(lines),
                                        !.fed = @ \o chunk,
                                        !.readCount = @ + 1])
         /\ progressStage' = st.stage
         /\ progressMessage' = st.message
         /\ progressPercent' = st.percent
         /\ progressDetails' = st.details
         /\ analysisResult' = st.result
         /\ error' = st.error
  /\ UNCHANGED <<analyzing, analysisType, customQuestion>>
  /\ UNCHANGED <<projectVars, fileVars, saveVars, modalVars, asyncFileVars,
                 genVars, bottomPanelOpen>>

\* reader.read() yields a chunk: the complete records of the buffer are
\* applied in order, the rest stays in the buffer
ReadChunk(r, chunk) ==
  /\ r \in BagToSet(runs)
  /\ r.phase = "read"
  /\ LET parts == SplitRecords(r.buffer \o chunk)
         lines == SubSeq(parts, 1, Len(parts) - 1)
         st == ApplyRecords(ProgressState, lines)
     IN  /\ runs' = (runs (-) One(r))
                      (+) One([r EXCEPT !.buffer = Last(parts),
                                        !.sawTerminal = @ \/ AppliesTerminal(lines),
                                        !.fed = @ \o chunk,
                                        !.readCount = @ + 1])
         /\ progressStage' = st.stage
         /\ progressMessage' = st.message
         /\ progressPercent' = st.percent
         /\ progressDetails' = st.details
         /\ analysisResult' = st.result
         /\ error' = st.error
  /\ UNCHANGED <<analyzing, analysisType, customQuestion>>
  /\ UNCHANGED <<projectVars, fileVars, saveVars, modalVars, asyncFileVars,
                 genVars, bottomPanelOpen>>

\* reader.read() yields done: the loop ends, finally clears analyzing
ReadDone(r) ==
  /\ r \in BagToSet(runs)
  /\ r.phase = "read"
  /\ runs' = runs (-) One(r)
  /\ analyzing' = FALSE
  /\ UNCHANGED <<analysisResult, analysisType, customQuestion,
                 progressStage, progressMessage, progressPercent, progressDetails>>
  /\ UNCHANGED <<projectVars, error, fileVars, saveVars, modalVars, asyncFileVars,
                 genVars, bottomPanelOpen>>

\* reader.read() rejects (the connection drops)
ReadThrow(r) ==
  /\ r \in BagToSet(runs)
  /\ r.phase = "read"
  /\ AnalyzeCatch(r, "streamFailed")


(* ========================== specifications ============================= *)

\* a project is opened from the folder browser while none is open
FirstOpenProject ==
  /\ projectTree = NoTree
  /\ opens = EmptyBag
  /\ OpenProject(RootP)

\* the services answer the project-open and indexing requests
ProjectSettles ==
  \/ \E r \in BagToSet(opens) : FetchOk(r)
  \/ \E r \in BagToSet(indexes) : IndexOk(r)
  \/ SuggestionLater

\* a file of the tree is clicked, within the bounds on reads and documents
Room == Len(openFiles) + BagCardinality(reads) + BagCardinality(gens) < MaxOpenFiles

ClickFile(paths) ==
  \E p \in paths :
    /\ BagCardinality(reads) < MaxReads
    /\ Room
    /\ FileClick(p)

ReadSettles(contents) ==
  \/ \E r \in BagToSet(reads) : \E c \in contents : ReadOk(r, c)
  \/ \E r \in BagToSet(reads) : ReadBinary(r)
  \/ \E r \in BagToSet(reads) : ReadFail(r)

\* openFile, edit and close on the documents of one project
NextDoc ==
  \/ FirstOpenProject
  \/ ProjectSettles
  \/ ClickFile(TreePaths)
  \/ ReadSettles({"c0"})
  \/ \E i \in DOMAIN openFiles : SelectTab(openFiles[i].path)
  \/ \E i \in DOMAIN openFiles : HandleCloseFile(openFiles[i].path)
  \/ \E c \in Contents : HandleEditorChange(c)
  \/ KeyDown(CtrlW)

SpecDoc == Init /\ [][NextDoc]_vars


\* project-open, indexing and delete requests explored at once
MaxProjectRequests == 2

\* the files the workspace scenarios click
DocPaths == {FileA, FileB}

\* a generation task whose file name is the one of the "new file" button
UntitledTask == <<"untitled">>

\* delete from the context menu, within the bounds on requests
ClickDelete ==
  /\ BagCardinality(deletes) < MaxDeletes
  /\ BagCardinality(opens) + BagCardinality(indexes) + BagCardinality(deletes)
       < MaxProjectRequests
  /\ HandleDeleteFile

DeleteSettles ==
  \/ \E r \in BagToSet(deletes) : DeleteOk(r)
  \/ \E r \in BagToSet(deletes) : DeleteFail(r)

GenerateSettles ==
  \/ \E r \in BagToSet(gens) : GenerateOk(r, "c1")
  \/ \E r \in BagToSet(gens) : \E m \in {"noCode", "generationFailed"} : GenerateFail(r, m)

\* one file at a time is opened from the tree
ClickFileInTurn(paths) ==
  \E p \in paths : reads = EmptyBag /\ Room /\ FileClick(p)

\* the open-document set under opens, closes and deletes of tree files
NextDelete ==
  \/ FirstOpenProject
  \/ ProjectSettles
  \/ ClickFileInTurn(DocPaths)
  \/ \E r \in BagToSet(reads) : ReadOk(r, "c0")
  \/ \E i \in DOMAIN openFiles : SelectTab(openFiles[i].path)
  \/ \E i \in DOMAIN openFiles : HandleCloseFile(openFiles[i].path)
  \/ \E p \in DocPaths : OpenContextMenu(p)
  \/ ClickDelete
  \/ DeleteSettles

SpecDelete == Init /\ [][NextDelete]_vars

\* the open-document set under synthetic documents: the "new file" button
\* and generation results
\* the instruction texts of the task input
AnalyzeTask == <<"please", "analyze", "project">>
HtmlTask == <<"landing", "page", "in", "html">>
Tasks == {UntitledTask, AnalyzeTask, HtmlTask}

NextSynthetic ==
  \/ FirstOpenProject
  \/ ProjectSettles
  \/ Room /\ NewFileButton
  \/ \E t \in Tasks :
       Room /\ Clickable /\ ~generating /\ BagCardinality(gens) < MaxGens
            /\ clickTimers = 0 /\ runs = EmptyBag /\ HandleGenerate(t)
  \/ GenerateSettles
  \/ ClickTimer
  \/ \E r \in BagToSet(runs) : StreamRefused(r)
  \/ \E i \in DOMAIN openFiles : SelectTab(openFiles[i].path)
  \/ \E i \in DOMAIN openFiles : HandleCloseFile(openFiles[i].path)
  \/ \E c \in Contents : HandleEditorChange(c)
  \/ KeyDown(CtrlW)

SpecSynthetic == Init /\ [][NextSynthetic]_vars

\* the save entry points, within the bound on writes in flight
SaveActive ==
  /\ BagCardinality(saves) < MaxSaves
  /\ \/ KeyDown(CtrlS)
     \/ HandleSaveFile(NoPath)
     \/ \E i \in DOMAIN openFiles : HandleSaveFile(openFiles[i].path)

SaveAll ==
  /\ BagCardinality(saves) + Len(DirtyOnDisk(openFiles)) <= MaxSaves
  /\ KeyDown(CtrlShiftS)

WriteSettles ==
  \/ \E r \in BagToSet(saves) : WriteOk(r)
  \/ \E r \in BagToSet(saves) : WriteFail(r)

\* editing and saving one file of a project and one synthetic document
NextSave ==
  \/ FirstOpenProject
  \/ \E r \in BagToSet(opens) : FetchOk(r)
  \/ ClickFileInTurn({FileA, FileB})
  \/ \E r \in BagToSet(reads) : ReadOk(r, "c0")
  \/ Room /\ NewFileButton
  \/ \E i \in DOMAIN openFiles : SelectTab(openFiles[i].path)
  \/ \E c \in Contents : HandleEditorChange(c)
  \/ SaveActive
  \/ WriteSettles
  \/ ClearSaveStatus

SpecSave == Init /\ [][NextSave]_vars

\* save-all over the files of a project, each opened and edited in turn
NextSaveAll ==
  \/ FirstOpenProject
  \/ \E r \in BagToSet(opens) : FetchOk(r)
  \/ ClickFileInTurn(TreePaths)
  \/ \E r \in BagToSet(reads) : ReadOk(r, "c0")
  \/ HandleEditorChange("c1")
  \/ SaveAll
  \/ WriteSettles

SpecSaveAll == Init /\ [][NextSaveAll]_vars

\* the project-path input is typed into between opens and saves
NextRoot ==
  \/ \E v \in Roots \cup {<<>>} : TypeProjectPath(v)
  \/ opens = EmptyBag /\ indexes = EmptyBag /\ OpenProject(<<>>)
  \/ \E r \in BagToSet(opens) : FetchOk(r)
  \/ \E r \in BagToSet(opens) : FetchFail(r)
  \/ \E r \in BagToSet(indexes) : IndexFail(r)
  \/ ClickFileInTurn({FileA})
  \/ \E r \in BagToSet(reads) : ReadOk(r, "c0")
  \/ HandleEditorChange("c1")
  \/ BagCardinality(saves) < MaxSaves /\ KeyDown(CtrlS)
  \/ WriteSettles

SpecRoot == Init /\ [][NextRoot]_vars


\* progress frames a stream can carry: progress 0.2, 1.0, above 1 and below 0
ScanFrame == Frame("scanning", "scan", 2, FALSE, "")
DoneFrame == Frame("completed", "done", 10, TRUE, "R")
ErrorFrame == Frame("error", "boom", 5, FALSE, "")
OverFrame == Frame("analyzing", "over", 15, FALSE, "")
UnderFrame == Frame("profiling", "under", -5, FALSE, "")
Frames == {ScanFrame, DoneFrame, ErrorFrame, OverFrame, UnderFrame}

\* a complete record: `data: <JSON>` and a blank line
Record(payload) == <<DataMarker, payload, NL, NL>>

\* the chunks a read can return: complete records, a record cut before its
\* separator and the separator alone, a record that does not parse and a
\* record under the other marker
Chunks == {Record(f) : f \in Frames}
            \cup {<<DataMarker, ScanFrame>>, <<NL, NL>>,
                  Record(BadJson), <<EventMarker, DoneFrame, NL, NL>>}

\* one analysis run after another on an open project
NextAnalysis ==
  \/ FirstOpenProject
  \/ ProjectSettles
  \/ runs = EmptyBag /\ HandleAnalyze
  \/ runs = EmptyBag /\ SuggestionAnalyze
  \/ \E r \in BagToSet(runs) : StreamOpen(r)
  \/ \E r \in BagToSet(runs) : StreamRefused(r)
  \/ \E r \in BagToSet(runs) : \E c \in Chunks :
       /\ Len(r.buffer) + Len(c) <= MaxBuffer
       /\ Len(r.fed) + Len(c) <= MaxStream
       /\ ReadChunk(r, c)
  \/ \E r \in BagToSet(runs) : ReadDone(r)
  \/ \E r \in BagToSet(runs) : ReadThrow(r)

SpecAnalysis == Init /\ [][NextAnalysis]_vars


\* a record under the marker `event: `
EventRecord(payload) == <<EventMarker, payload, NL, NL>>

\* the streams the analysis service sends: two frames; a record that does not
\* parse before a frame; two records under the other marker; a frame and an
\* unfinished record; three newlines between two records
TwoFrames == Record(ScanFrame) \o Record(DoneFrame)
BadThenFrame == Record(BadJson) \o Record(ScanFrame)
TwoEventFrames == EventRecord(ScanFrame) \o EventRecord(DoneFrame)
FrameAndFragment == Record(UnderFrame) \o <<DataMarker, ScanFrame>>
ThreeNewlines == <<DataMarker, ScanFrame, NL, NL, NL>> \o Record(DoneFrame)
Streams == {TwoFrames, BadThenFrame, TwoEventFrames, FrameAndFragment, ThreeNewlines}

\* reader.read() yields the next part of a stream, cut at any token
Deliver(r) ==
  \E s \in Streams : \E k \in 1..Len(s) :
    /\ k > Len(r.fed)
    /\ k <= MaxStream
    /\ SubSeq(s, 1, Len(r.fed)) = r.fed
    /\ ReadChunk(r, SubSeq(s, Len(r.fed) + 1, k))

\* analysis runs started from the analyze button, their streams read in
\* chunks of any size
NextStream ==
  \/ FirstOpenProject
  \/ \E r \in BagToSet(opens) : FetchOk(r)
  \/ HandleAnalyze
  \/ \E r \in BagToSet(runs) : StreamOpen(r)
  \/ \E r \in BagToSet(runs) : StreamRefused(r)
  \/ \E r \in BagToSet(runs) : Deliver(r)
  \/ \E r \in BagToSet(runs) : ReadDone(r)
  \/ \E r \in BagToSet(runs) : ReadThrow(r)

SpecStream == Init /\ [][NextStream]_vars

\* an analysis is started from the suggestion modal while the run started
\* from the analyze button is still in flight
NextOverlap ==
  \/ FirstOpenProject
  \/ ProjectSettles
  \/ BagCardinality(runs) < MaxRuns /\ HandleAnalyze
  \/ BagCardinality(runs) < MaxRuns /\ SuggestionAnalyze
  \/ \E r \in BagToSet(runs) : StreamOpen(r)
  \/ \E r \in BagToSet(runs) : \E c \in {Record(ScanFrame), Record(DoneFrame)} :
       /\ Len(r.fed) + Len(c) <= MaxStream
       /\ ReadChunk(r, c)
  \/ \E r \in BagToSet(runs) : ReadDone(r)

SpecOverlap == Init /\ [][NextOverlap]_vars

\* keys are pressed while documents are open and edited and menus are open
NextKeys ==
  \/ FirstOpenProject
  \/ \E r \in BagToSet(opens) : FetchOk(r)
  \/ ClickFileInTurn({FileA, FileB})
  \/ \E r \in BagToSet(reads) : ReadOk(r, "c0")
  \/ HandleEditorChange("c1")
  \/ \E p \in {FileA} : OpenContextMenu(p)
  \/ \E e \in Keys :
       /\ BagCardinality(saves) + Len(DirtyOnDisk(openFiles)) <= MaxSaves
       /\ KeyDown(e)
  \/ WriteSettles

SpecKeys == Init /\ [][NextKeys]_vars

\* the open button of the project bar: disabled while a project loads or
\* the path input is empty
OpenButton ==
  /\ Clickable
  /\ ~projectLoading
  /\ projectPath # <<>>
  /\ OpenProject(<<>>)

\* the folders offered by the folder browser: one more than the recent
\* list holds
BrowserDirs == {<<"d1">>, <<"d2">>, <<"d3">>, <<"d4">>, <<"d5">>, <<"d6">>}

\* projects are opened one after the other from the folder browser and from
\* the recent-projects list; the index service is down
NextRecent ==
  \/ \E d \in BrowserDirs :
       /\ Clickable /\ ~projectLoading
       /\ opens = EmptyBag /\ indexes = EmptyBag
       /\ OpenProject(d)
  \/ \E i \in DOMAIN recentProjects :
       /\ Clickable /\ ~projectLoading
       /\ opens = EmptyBag /\ indexes = EmptyBag
       /\ OpenProject(recentProjects[i])
  \/ \E r \in BagToSet(opens) : FetchOk(r)
  \/ \E r \in BagToSet(opens) : FetchFail(r)
  \/ \E r \in BagToSet(indexes) : IndexFail(r)

SpecRecent == Init /\ [][NextRecent]_vars

\* the folders of a project tree, the root entry among them
Folders == {<<".">>, <<"src">>, <<"docs">>}

\* the tree panel: folders are expanded and collapsed, another root is typed
\* and opened while nothing is in flight, and a file of the opened root is
\* deleted, which refreshes the tree
NextTree ==
  \/ FirstOpenProject
  \/ \E v \in Roots :
       opens = EmptyBag /\ indexes = EmptyBag /\ deletes = EmptyBag
         /\ contextMenu = NoPath /\ TypeProjectPath(v)
  \/ /\ projectPath # projectTree
     /\ opens = EmptyBag /\ indexes = EmptyBag /\ deletes = EmptyBag
     /\ OpenButton
  \/ \E r \in BagToSet(opens) : FetchOk(r)
  \/ \E r \in BagToSet(opens) : FetchFail(r)
  \/ \E r \in BagToSet(indexes) : IndexOk(r)
  \/ \E r \in BagToSet(indexes) : IndexFail(r)
  \/ SuggestionLater
  \/ \E f \in Folders : Clickable /\ ToggleExpand(f)
  \/ projectPath = projectTree /\ OpenContextMenu(FileA)
  \/ projectPath = projectTree /\ ClickDelete
  \/ DeleteSettles

SpecTree == Init /\ [][NextTree]_vars

\* save-all over files of a project and a synthetic document, some of them
\* edited
NextSaveMixed ==
  \/ FirstOpenProject
  \/ \E r \in BagToSet(opens) : FetchOk(r)
  \/ ClickFileInTurn({FileA, FileB})
  \/ \E r \in BagToSet(reads) : ReadOk(r, "c0")
  \/ Room /\ NewFileButton
  \/ \E i \in DOMAIN openFiles : SelectTab(openFiles[i].path)
  \/ HandleEditorChange("c1")
  \/ SaveAll
  \/ WriteSettles

SpecSaveMixed == Init /\ [][NextSaveMixed]_vars

\* a file of the project tree inside a folder named __new__
ShadowFile == <<"__new__", SLASH, "untitled", ".", "py">>

\* a project whose tree holds the folder __new__: its files and a synthetic
\* document are opened, edited and saved
NextNamespace ==
  \/ FirstOpenProject
  \/ \E r \in BagToSet(opens) : FetchOk(r)
  \/ ClickFileInTurn({FileA, ShadowFile})
  \/ \E r \in BagToSet(reads) : ReadOk(r, "c0")
  \/ Room /\ NewFileButton
  \/ \E i \in DOMAIN openFiles : SelectTab(openFiles[i].path)
  \/ \E i \in DOMAIN openFiles : HandleCloseFile(openFiles[i].path)
  \/ HandleEditorChange("c1")
  \/ SaveActive
  \/ WriteSettles
  \/ ClearSaveStatus

SpecNamespace == Init /\ [][NextNamespace]_vars

\* analyses are started one after the other from the analyze button, from
\* the analysis-type menu and from its question input
NextMenu ==
  \/ FirstOpenProject
  \/ ProjectSettles
  \/ runs = EmptyBag /\ HandleAnalyze
  \/ \E t \in AnalysisTypes : runs = EmptyBag /\ PickAnalysisType(t)
  \/ \E q \in {<<>>, <<"why">>} : runs = EmptyBag /\ TypeCustomQuestion(q)
  \/ runs = EmptyBag /\ SubmitCustomQuestion
  \/ \E r \in BagToSet(runs) : StreamOpen(r)
  \/ \E r \in BagToSet(runs) : StreamRefused(r)
  \/ \E r \in BagToSet(runs) : ReadDone(r)

SpecMenu == Init /\ [][NextMenu]_vars

\* a second project is opened from the folder browser or the recent list
\* while the open of the first one is in flight
SecondOpenProject ==
  /\ opens = One([path |-> RootP])
  /\ projectTree = NoTree
  /\ error = ""
  /\ OpenProject(RootQ)

\* two overlapping project opens, their responses and their auto-indexing
\* in any order, and a re-index by hand
NextOverlapOpen ==
  \/ FirstOpenProject
  \/ SecondOpenProject
  \/ \E r \in BagToSet(opens) : FetchOk(r)
  \/ \E r \in BagToSet(indexes) : IndexOk(r)
  \/ \E r \in BagToSet(indexes) : IndexFail(r)
  \/ SuggestionLater
  \/ BagCardinality(indexes) < MaxProjectRequests /\ HandleIndexProject
  \/ \E r \in BagToSet(indexes) : \E st \in {"indexed", "failed"} :
       ManualIndexSettles(r, st)
  \/ \E f \in Folders : Clickable /\ ToggleExpand(f)

SpecOverlapOpen == Init /\ [][NextOverlapOpen]_vars

\* one project session: the project is opened and opened again, indexed by
\* hand, and refreshed after the delete of a file
NextSession ==
  \/ FirstOpenProject
  \/ BagCardinality(opens) + BagCardinality(indexes) < MaxProjectRequests /\ OpenButton
  \/ \E r \in BagToSet(opens) : FetchOk(r)
  \/ \E r \in BagToSet(opens) : FetchFail(r)
  \/ \E r \in BagToSet(indexes) : IndexOk(r)
  \/ \E r \in BagToSet(indexes) : IndexFail(r)
  \/ SuggestionLater
  \/ BagCardinality(opens) + BagCardinality(indexes) < MaxProjectRequests
       /\ HandleIndexProject
  \/ \E r \in BagToSet(indexes) : \E st \in {"indexed", "failed"} :
       ManualIndexSettles(r, st)
  \/ \E p \in DocPaths : OpenContextMenu(p)
  \/ ClickDelete
  \/ DeleteSettles

SpecSession == Init /\ [][NextSession]_vars

\* the workspace as a whole: every step of every scenario above
Next ==
  \/ NextDoc
  \/ NextDelete
  \/ NextSynthetic
  \/ NextSave
  \/ NextSaveAll
  \/ NextRoot
  \/ NextAnalysis
  \/ NextStream
  \/ NextOverlap
  \/ NextKeys
  \/ NextSession
  \/ NextRecent
  \/ NextTree
  \/ NextSaveMixed
  \/ NextNamespace
  \/ NextMenu
  \/ NextOverlapOpen

Spec == Init /\ [][Next]_vars

(* ============================== claims ================================= *)

\* C1: after every openFile, edit and close the active document is null or
\* the path of an open document
ActiveIsOpen == activeFile = NoPath \/ IsOpen(openFiles, activeFile)

\* C1 witness: two documents are open, the first one was edited and is the
\* active one again after the second was opened
ActiveAmongTwo ==
  /\ Len(openFiles) = 2
  /\ openFiles[1].path # openFiles[2].path
  /\ openFiles[1].isDirty
  /\ activeFile = openFiles[1].path

\* C2: in every reachable state of the workspace ActiveSelection is null or
\* references a document of the open-document set
ActiveSelectionValid ==
  activeFile # NoPath => \E i \in DOMAIN openFiles : openFiles[i].path = activeFile

\* C3: at most one OpenDocument per path is in the open-document set
OneDocumentPerPath ==
  \A i, j \in DOMAIN openFiles : openFiles[i].path = openFiles[j].path => i = j


\* C4: a document whose content differs from the content last written to or
\* loaded from the remote service is dirty
DirtyWhenDiverged ==
  \A i \in DOMAIN openFiles :
    openFiles[i].content # openFiles[i].persisted => openFiles[i].isDirty

\* C5: a write that succeeds for a document not edited since the save was
\* issued leaves it clean, and it stays clean until it is edited; an edit of
\* a clean document makes it dirty, also with the content it already has
SaveCleansEditDirties ==
  /\ [][/\ \A r \in BagToSet(saves) :
             WriteOk(r) =>
               \A i \in DOMAIN openFiles' :
                 (openFiles'[i].path = r.path /\ openFiles'[i].content = r.content)
                   => ~openFiles'[i].isDirty
        /\ \A i \in DOMAIN openFiles :
             (/\ ~openFiles[i].isDirty
              /\ ~(\E c \in Contents : HandleEditorChange(c))
              /\ i \in DOMAIN openFiles'
              /\ openFiles'[i].path = openFiles[i].path)
               => ~openFiles'[i].isDirty]_vars
  /\ [](\A i \in DOMAIN openFiles :
          (openFiles[i].path = activeFile /\ ~openFiles[i].isDirty)
            => ENABLED (/\ HandleEditorChange(openFiles[i].content)
                        /\ openFiles'[i].isDirty
                        /\ openFiles'[i].content = openFiles[i].content))

\* C5 witness: a document on disk that a save left clean was edited with the
\* content it had, and is dirty
DirtyWithSavedContent ==
  \E i \in DOMAIN openFiles :
    /\ ~openFiles[i].isNew
    /\ openFiles[i].isDirty
    /\ openFiles[i].persisted = "c1"
    /\ openFiles[i].content = "c1"

\* C6: a write of save-all that fails changes no document and leaves the
\* other writes in flight; a write that succeeds cleans the documents at its
\* path and no other, whatever became of the other writes; save-all issues
\* one write per dirty document on disk
SaveAllIsolatesFailure ==
  [][/\ \A r \in BagToSet(saves) :
          WriteFail(r) => /\ openFiles' = openFiles
                          /\ saves' = saves (-) One(r)
                          /\ error' = error
     /\ \A r \in BagToSet(saves) :
          WriteOk(r) => /\ saves' = saves (-) One(r)
                        /\ DOMAIN openFiles' = DOMAIN openFiles
                        /\ \A i \in DOMAIN openFiles :
                             IF openFiles[i].path = r.path
                             THEN ~openFiles'[i].isDirty
                             ELSE openFiles'[i] = openFiles[i]
     /\ KeyDown(CtrlShiftS) =>
          /\ openFiles' = openFiles
          /\ \A i \in DOMAIN openFiles :
               (openFiles[i].isDirty /\ ~openFiles[i].isNew)
                 => \E r \in BagToSet(saves') :
                      /\ r.path = openFiles[i].path
                      /\ r.content = openFiles[i].content
                      /\ CopiesIn(r, saves') > CopiesIn(r, saves)]_vars

\* C6 witness: save-all over A and B dirty and C clean has settled, B's write
\* having failed last: A and C are clean, B is dirty
SaveAllSettled ==
  /\ saves = EmptyBag
  /\ saveStatus = "writeError"
  /\ \E a, b, c \in DOMAIN openFiles :
       /\ ~openFiles[a].isDirty /\ openFiles[a].persisted = "c1"
       /\ openFiles[b].isDirty /\ openFiles[b].persisted = "c0"
       /\ ~openFiles[c].isDirty /\ openFiles[c].persisted = "c0"

\* C7: save on the active synthetic document issues no write, reports
\* not-savable and leaves the documents as they are; a synthetic document is
\* dirty in every state
SyntheticNotSavable ==
  [][/\ (/\ IsOpen(openFiles, activeFile)
         /\ Find(openFiles, activeFile).isNew
         /\ (KeyDown(CtrlS) \/ HandleSaveFile(NoPath)))
          => /\ saves' = saves
             /\ openFiles' = openFiles
             /\ saveStatus' = "notSavable"
     /\ \A i \in DOMAIN openFiles' : openFiles'[i].isNew => openFiles'[i].isDirty]_vars

\* C7 witness: the save of the active synthetic document was refused while a
\* write of another document was in flight
SyntheticSaveRefused ==
  /\ saveStatus = "notSavable"
  /\ IsOpen(openFiles, activeFile)
  /\ Find(openFiles, activeFile).isNew
  /\ Find(openFiles, activeFile).isDirty
  /\ saves # EmptyBag

\* C8: every write that save issues targets the root of the project that was
\* opened last, joined with the relative path of the document
WritesUnderOpenedRoot ==
  [][\A r \in BagToSet(saves') :
       CopiesIn(r, saves') > CopiesIn(r, saves)
         => r.fullPath = FullPath(projectTree, r.path)]_vars

\* C9: once a run has applied a frame with stage completed or error, no
\* later chunk of its stream changes the progress state
TerminalStageIsFinal ==
  [][\A r \in BagToSet(runs) :
       (r.sawTerminal /\ \E c \in Chunks : ReadChunk(r, c))
         => UNCHANGED <<progressStage, progressMessage, progressPercent,
                        progressDetails, analysisResult, error>>]_vars

\* C10: the percent of the progress state lies in [0, 100]
PercentInRange == progressPercent >= 0 /\ progressPercent <= 100


\* the complete records of a stream, read as one chunk
WholeLines(stream) ==
  LET parts == SplitRecords(stream) IN SubSeq(parts, 1, Len(parts) - 1)

\* C11: however a stream is cut into reads, the progress state after the
\* reads is the one that results from the whole of what was delivered read
\* as a single chunk, and the unfinished last fragment is in the buffer,
\* not parsed
ChunkingIsInvisible ==
  \A r \in BagToSet(runs) :
    r.phase = "read" =>
      /\ ProgressState = ApplyRecords(StartState, WholeLines(r.fed))
      /\ r.buffer = Last(SplitRecords(r.fed))

\* C11 witness: a frame and an unfinished record arrived in three reads; the
\* frame is applied, the fragment is in the buffer
FragmentBuffered ==
  \E r \in BagToSet(runs) :
    /\ r.fed = FrameAndFragment
    /\ r.readCount = 3
    /\ r.buffer = <<DataMarker, ScanFrame>>
    /\ progressStage = "profiling"


\* C12 as stated: two reads, each one complete record written `event: <JSON>`,
\* a scanning frame with progress 0.2 and a completed frame with progress 1.0
\* and details.result = R, end in stage completed, percent 100, result R
EventFramesComplete ==
  [][\A r \in BagToSet(runs) :
       (/\ r.fed = EventRecord(ScanFrame)
        /\ r.readCount = 1
        /\ ReadChunk(r, EventRecord(DoneFrame)))
         => /\ progressStage' = "completed"
            /\ progressPercent' = 100
            /\ analysisResult' = [kind |-> "result", value |-> "R"]]_vars

\* C12 amended: the two reads end in stage completed, percent 100, result R
\* when the records are written `data: <JSON>` (after the first read the
\* stage is scanning and the percent 20); written `event: <JSON>` they are
\* skipped and change nothing of the progress state
DataFramesComplete ==
  [][\A r \in BagToSet(runs) :
       /\ (r.fed = <<>> /\ ReadChunk(r, Record(ScanFrame)))
            => progressStage' = "scanning" /\ progressPercent' = 20
       /\ (/\ r.fed = Record(ScanFrame)
           /\ r.readCount = 1
           /\ ReadChunk(r, Record(DoneFrame)))
            => /\ progressStage' = "completed"
               /\ progressPercent' = 100
               /\ analysisResult' = [kind |-> "result", value |-> "R"]
       /\ (\E f \in {ScanFrame, DoneFrame} : ReadChunk(r, EventRecord(f)))
            => ProgressState' = ProgressState]_vars

\* C12 witness: the scanning and the completed record arrived in two reads
\* and the run stands at completed, 100, R
TwoReadsCompleted ==
  \E r \in BagToSet(runs) :
    /\ r.fed = TwoFrames
    /\ r.readCount = 2
    /\ r.buffer = <<>>
    /\ progressStage = "completed"
    /\ progressPercent = 100
    /\ analysisResult = [kind |-> "result", value |-> "R"]


\* the records that a read of chunk completes for run r
NewLines(r, chunk) ==
  LET parts == SplitRecords(r.buffer \o chunk) IN SubSeq(parts, 1, Len(parts) - 1)

\* a record under the marker `data: ` whose payload parses
WellFormed(line) == StartsWithData(line) /\ Parses(line)

\* the part of a stream after what run r has received, up to token k
NextPart(r, s, k) == SubSeq(s, Len(r.fed) + 1, k)

\* C13: a read changes the progress state as its well-formed records alone
\* would, a record that does not parse changing nothing, and leaves the run
\* reading; after a record that does not parse and a scanning frame the run
\* stands at scanning with no error
MalformedIsSkipped ==
  /\ [][\A r \in BagToSet(runs) : \A s \in Streams : \A k \in 1..Len(s) :
          (/\ k > Len(r.fed)
           /\ SubSeq(s, 1, Len(r.fed)) = r.fed
           /\ ReadChunk(r, NextPart(r, s, k)))
            => /\ ProgressState' =
                    ApplyRecords(ProgressState,
                                 SelectSeq(NewLines(r, NextPart(r, s, k)), WellFormed))
               /\ analyzing' = analyzing
               /\ \E r2 \in BagToSet(runs') :
                    r2.phase = "read" /\ r2.fed = r.fed \o NextPart(r, s, k)]_vars
  /\ [](\A r \in BagToSet(runs) :
          r.fed = BadThenFrame
            => /\ progressStage = "scanning"
               /\ progressPercent = 20
               /\ error = ""
               /\ analysisResult = [kind |-> "none", value |-> ""])

\* C13 witness: the record that does not parse came in one read, the
\* scanning frame in the next, and the frame is applied
FrameAfterMalformed ==
  \E r \in BagToSet(runs) :
    /\ r.fed = BadThenFrame
    /\ r.readCount = 2
    /\ r.phase = "read"
    /\ analyzing
    /\ progressStage = "scanning"


\* C14: when the stream of a run that has applied non-terminal frames only
\* is closed or aborted, the stage stays the non-terminal one it was and no
\* result is recorded
AbortKeepsStage ==
  [][\A r \in BagToSet(runs) :
       (/\ r.phase = "read"
        /\ ~r.sawTerminal
        /\ progressStage = "profiling"
        /\ (ReadDone(r) \/ ReadThrow(r)))
         => /\ progressStage' = "profiling"
            /\ analysisResult' = [kind |-> "none", value |-> ""]]_vars


\* C15: once a new run has started, no frame of an earlier run changes
\* stage, message, percent, details or result
EarlierRunIsSilent ==
  [][\A r \in BagToSet(runs) :
       (r.stale /\ \E c \in {Record(ScanFrame), Record(DoneFrame)} : ReadChunk(r, c))
         => UNCHANGED <<progressStage, progressMessage, progressPercent,
                        progressDetails, analysisResult>>]_vars


\* C16: the save shortcut with an active document on disk issues one write,
\* of the active document's path and content, and none for another
\* document (with an active synthetic document it issues none); it changes
\* no document; with no active document it changes no state at all
SaveShortcutSavesActive ==
  /\ [][KeyDown(CtrlS) =>
          /\ openFiles' = openFiles
          /\ activeFile' = activeFile
          /\ error' = error
          /\ IF IsOpen(openFiles, activeFile) /\ ~Find(openFiles, activeFile).isNew
             THEN saves' = saves (+) One([path |-> activeFile,
                                          fullPath |-> FullPath(projectPath, activeFile),
                                          content |-> Find(openFiles, activeFile).content])
             ELSE saves' = saves]_vars
  /\ [](activeFile = NoPath => ~ENABLED (KeyDown(CtrlS) /\ vars' # vars))

\* C16 witness: two dirty documents on disk are open and the shortcut has
\* issued the one write, for the active one
OneWriteForActive ==
  /\ Len(openFiles) = 2
  /\ \A i \in DOMAIN openFiles : openFiles[i].isDirty /\ ~openFiles[i].isNew
  /\ openFiles[1].path # openFiles[2].path
  /\ saving
  /\ BagCardinality(saves) = 1
  /\ \E r \in BagToSet(saves) :
       r.path = activeFile /\ r.content = Find(openFiles, activeFile).content


\* C17: the dismiss key leaves no modal or menu open (command palette, file
\* context menu, shortcuts help, analysis suggestion)
DismissClosesAll ==
  ~ENABLED (/\ KeyDown(Escape)
            /\ \/ showCommandPalette'
               \/ contextMenu' # NoPath
               \/ showShortcutsHint'
               \/ showAnalysisSuggestion' /\ autoIndexingDone')


\* C18: a key event that is no combination of the binding table changes no
\* state, issues no request and leaves the host's default handling alone
UnmatchedKeyPassesThrough ==
  \A e \in Keys :
    ~InBindingTable(e) =>
      /\ ~PreventsDefault(e)
      /\ ~ENABLED (KeyDown(e) /\ vars' # vars)

\* C18 witness: a dirty document on disk is active, another is open, the
\* shortcuts help and a context menu are shown: each bound action would
\* change the state here
KeysWouldAct ==
  /\ Len(openFiles) = 2
  /\ IsOpen(openFiles, activeFile)
  /\ Find(openFiles, activeFile).isDirty
  /\ showShortcutsHint
  /\ contextMenu # NoPath
  /\ saves = EmptyBag


\* C19: the analysis suggestion is raised at most once for a project path:
\* an indexing that succeeds raises it only when it was not yet raised for
\* the path
OfferedOnce ==
  [][\A r \in BagToSet(indexes) :
       (IndexOk(r) /\ ~showAnalysisSuggestion /\ showAnalysisSuggestion')
         => r.path \notin offered]_vars

\* C20: while an auto-triggered indexing request is in flight the
\* controller is in the indexing state
IndexingWhileRequested ==
  (\E r \in BagToSet(indexes) : r.auto) => indexing

\* C21: when the auto-indexing request fails, the fetched tree, stats and
\* project path stay, the indexing flag is cleared, the index status shows
\* the failure, the global error is left as it was and no analysis offer
\* is raised
IndexFailureIsNotFatal ==
  [][\A r \in BagToSet(indexes) :
       IndexFail(r) =>
         /\ UNCHANGED <<projectTree, projectStats, projectName, projectPath>>
         /\ ~indexing'
         /\ ~projectLoading'
         /\ indexStatus' = "failed"
         /\ error' = error
         /\ UNCHANGED <<showAnalysisSuggestion, autoIndexingDone, offered>>]_vars

IndexFailedProjectReady ==
  /\ indexStatus = "failed"
  /\ ~indexing
  /\ projectTree = RootP
  /\ projectPath = RootP
  /\ error = ""
  /\ ~showAnalysisSuggestion
  /\ offered = {}
  /\ indexes = EmptyBag

\* C22: a step in which the progress stage of the run becomes completed or
\* error is a step in which the controller leaves the analyzing state
TerminalStageEndsAnalyzing ==
  [][(~IsTerminal(progressStage) /\ IsTerminal(progressStage'))
       => ~analyzing']_vars

LifecycleState ==
  <<projectTree, projectPath, indexing, indexStatus, analyzing, progressStage,
    progressMessage, progressPercent, progressDetails, analysisResult>>

GenerationOnlyWritesDocument ==
  [][/\ \A t \in Tasks : HandleGenerate(t) => UNCHANGED LifecycleState
     /\ \A r \in BagToSet(gens) :
          /\ (\E m \in {"noCode", "generationFailed"} : GenerateFail(r, m))
                => UNCHANGED LifecycleState
          /\ GenerateOk(r, "c1") =>
                /\ UNCHANGED LifecycleState
                /\ \E i \in DOMAIN openFiles' :
                     /\ openFiles'[i].path = NewPath(GeneratedFileName(r.task))
                     /\ openFiles'[i].content = "c1"
                     /\ openFiles'[i].isNew]_vars

OpenResetsTree ==
  [][\A r \in BagToSet(opens) :
       FetchOk(r) => /\ projectTree' = r.path
                     /\ projectStats' = r.path
                     /\ projectName' = r.path
                     /\ expandedPaths' = {<<".">>}]_vars

\* the second root is open with the root entry expanded, after the first
\* root had been opened
SecondRootOpened ==
  /\ projectTree = RootQ
  /\ projectStats = RootQ
  /\ recentProjects = <<RootQ, RootP>>
  /\ expandedPaths = {<<".">>}
  /\ opens = EmptyBag

\* C27: the response of the refresh that follows a delete (a fetch of the
\* root whose tree is cached) leaves the expanded folders unchanged
RefreshKeepsExpanded ==
  [][\A r \in BagToSet(opens) :
       (FetchOk(r) /\ r.path = projectTree) => UNCHANGED expandedPaths]_vars

\* C28: when a delete succeeds no open document has the deleted path any
\* more, and if the deleted document was the active one the active pointer
\* is null or names a document that is still open
DeleteClosesDocument ==
  [][\A r \in BagToSet(deletes) :
       DeleteOk(r) =>
         /\ ~IsOpen(openFiles', r.path)
         /\ activeFile = r.path =>
               (activeFile' = NoPath \/ IsOpen(openFiles', activeFile'))]_vars

\* C30: closing a document (its tab button, or Ctrl+W for the active one)
\* removes it from the open documents and keeps the others in order; if it
\* was the active document the last remaining one becomes active, or none
\* when nothing remains; otherwise the active pointer is unchanged
Closed(path) ==
  /\ \A j \in DOMAIN openFiles' : openFiles'[j].path # path
  /\ openFiles' = Without(openFiles, path)
  /\ IF activeFile = path
     THEN IF openFiles' = <<>>
          THEN activeFile' = NoPath
          ELSE activeFile' = openFiles'[Len(openFiles')].path
     ELSE activeFile' = activeFile

CloseMovesToLast ==
  [][/\ \A i \in DOMAIN openFiles :
          HandleCloseFile(openFiles[i].path) => Closed(openFiles[i].path)
     /\ (KeyDown(CtrlW) /\ activeFile # NoPath) => Closed(activeFile)]_vars

\* two documents remain, the first one edited, the last one active
LastRemainingActive ==
  /\ Len(openFiles) = 2
  /\ openFiles[1].isDirty
  /\ ~openFiles[2].isDirty
  /\ activeFile = openFiles[2].path
  /\ reads = EmptyBag

\* C31: createNewFile(name, content) leaves exactly one open document at
\* the synthetic path of name, with the given content, dirty, and active
OneSyntheticAt(path, content) ==
  /\ Cardinality({i \in DOMAIN openFiles' : openFiles'[i].path = path}) = 1
  /\ \A i \in DOMAIN openFiles' :
       openFiles'[i].path = path =>
         openFiles'[i].content = content /\ openFiles'[i].isDirty
  /\ activeFile' = path

CreateLeavesOneDocument ==
  [][/\ NewFileButton =>
          OneSyntheticAt(NewPath(<<"untitled", ".", "py">>), "c0")
     /\ \A r \in BagToSet(gens) :
          GenerateOk(r, "c1") =>
            OneSyntheticAt(NewPath(GeneratedFileName(r.task)), "c1")]_vars

\* C32: save-all issues one write for each open document that is dirty and
\* not synthetic, with that document's content, and no other write; with no
\* such document it issues none
DueForSave ==
  {i \in DOMAIN openFiles : openFiles[i].isDirty /\ ~openFiles[i].isNew}

SaveAllWritesDirtyOnDisk ==
  /\ [][KeyDown(CtrlShiftS) =>
          /\ BagCardinality(saves') = BagCardinality(saves) + Cardinality(DueForSave)
          /\ \A i \in DueForSave :
               \E r \in BagToSet(saves') :
                 /\ r.path = openFiles[i].path
                 /\ r.content = openFiles[i].content
                 /\ CopiesIn(r, saves') > CopiesIn(r, saves)
          /\ \A r \in BagToSet(saves') :
               CopiesIn(r, saves') > CopiesIn(r, saves) =>
                 \E i \in DueForSave : r.path = openFiles[i].path
          /\ openFiles' = openFiles]_vars
  /\ [](DueForSave = {} => ~ENABLED (KeyDown(CtrlShiftS) /\ saves' # saves))

\* save-all has acted on an edited file, a clean file and an edited
\* synthetic document: the one write in flight is the edited file's
OnlyEditedFileWritten ==
  /\ BagCardinality(saves) = 1
  /\ \E a, b, n \in DOMAIN openFiles :
       /\ openFiles[a].isDirty /\ ~openFiles[a].isNew
       /\ \A r \in BagToSet(saves) : r.path = openFiles[a].path
       /\ ~openFiles[b].isDirty /\ ~openFiles[b].isNew
       /\ openFiles[n].isDirty /\ openFiles[n].isNew

\* C33: an edit changes the content and the dirty flag of the documents at
\* the edited path and nothing else: the other documents, the order of the
\* open list and the active pointer stay, no request is issued; while the
\* edited path is not open an edit changes nothing
InFlight == <<opens, indexes, reads, saves, deletes, gens, runs>>

EditTouchesOneDocument ==
  /\ [][\A c \in Contents :
          HandleEditorChange(c) =>
            /\ DOMAIN openFiles' = DOMAIN openFiles
            /\ \A i \in DOMAIN openFiles :
                 IF openFiles[i].path = activeFile
                 THEN openFiles'[i] = [openFiles[i] EXCEPT !.content = c,
                                                          !.isDirty = TRUE]
                 ELSE openFiles'[i] = openFiles[i]
            /\ activeFile' = activeFile
            /\ UNCHANGED InFlight
            /\ UNCHANGED <<projectVars, error, saveVars, analysisVars,
                           modalVars, genVars, bottomPanelOpen>>]_vars
  /\ [](~IsOpen(openFiles, activeFile) =>
          \A c \in Contents : ~ENABLED (HandleEditorChange(c) /\ vars' # vars))

\* the active document is edited and is followed in the open list by a
\* document as it was read
EditedBeforeUntouched ==
  \E i, j \in DOMAIN openFiles :
    /\ i < j
    /\ openFiles[i].path = activeFile
    /\ openFiles[i].content = "c1" /\ openFiles[i].isDirty
    /\ openFiles[j].content = "c0" /\ ~openFiles[j].isDirty

\* C34: a document opened from the project tree is never keyed in the
\* namespace of the synthetic documents, whatever relative path the tree
\* holds
TreeDocumentsOutsideSynthetic ==
  \A i \in DOMAIN openFiles :
    ~openFiles[i].isNew => ~StartsWithNew(openFiles[i].path)

\* C35: a read that answers binary, or that fails, adds no document, leaves
\* the active pointer alone and surfaces an error
RefusedReadOpensNothing ==
  [][\A r \in BagToSet(reads) :
       /\ ReadBinary(r) => /\ openFiles' = openFiles
                           /\ activeFile' = activeFile
                           /\ error' = "binaryFile"
       /\ ReadFail(r) => /\ openFiles' = openFiles
                         /\ activeFile' = activeFile
                         /\ error' = "readFailed"]_vars

\* a.py is open and active and the read of another file was refused as
\* binary
BinaryRefusedBesideOpen ==
  /\ error = "binaryFile"
  /\ reads = EmptyBag
  /\ PathsOf(openFiles) = <<FileA>>
  /\ activeFile = FileA

\* C36: a delete that the service rejects surfaces an error and leaves the
\* open documents, the active pointer, the cached tree and the expanded
\* folders as they were; no tree fetch is issued
FailedDeleteChangesNothing ==
  [][\A r \in BagToSet(deletes) :
       DeleteFail(r) =>
         /\ error' = "deleteFailed"
         /\ UNCHANGED <<openFiles, activeFile>>
         /\ UNCHANGED <<projectTree, projectStats, projectPath, expandedPaths>>
         /\ UNCHANGED <<opens, indexes, projectLoading>>]_vars

\* the delete of an open file was rejected: the file is still open and
\* active, the tree is in place and nothing is in flight
RejectedDeleteKeepsDocument ==
  /\ error = "deleteFailed"
  /\ deletes = EmptyBag /\ opens = EmptyBag /\ indexes = EmptyBag
  /\ IsOpen(openFiles, FileA)
  /\ activeFile = FileA
  /\ projectTree = RootP

\* C37: a tree fetch that fails surfaces an error, leaves the cached tree
\* and stats, the expanded folders and the recent list as they were, issues
\* no indexing request and clears the loading flag, so that the open button
\* works again whenever a path is typed
FailedOpenIsRecoverable ==
  /\ [][\A r \in BagToSet(opens) :
          FetchFail(r) =>
            /\ error' = "openFailed"
            /\ UNCHANGED <<projectTree, projectStats, projectName, projectPath,
                           expandedPaths, recentProjects>>
            /\ UNCHANGED <<indexes, indexing, indexStatus>>
            /\ ~projectLoading']_vars
  /\ []((error = "openFailed" /\ opens = EmptyBag /\ indexes = EmptyBag
           /\ Clickable /\ projectPath # <<>>)
          => ENABLED (OpenButton /\ opens' # opens))

\* the open of the second root failed: the tree of the first root is still
\* cached with its expanded folder, and nothing is in flight
SecondOpenFailed ==
  /\ error = "openFailed"
  /\ projectTree = RootP
  /\ projectPath = RootQ
  /\ <<"src">> \in expandedPaths
  /\ recentProjects = <<RootP>>
  /\ ~projectLoading
  /\ opens = EmptyBag /\ indexes = EmptyBag

\* C38: the analysis request started by a click on an entry of the
\* analysis-type menu carries the type of that entry, and the request
\* started by a submitted question carries the type custom
StartedWith(type) ==
  \E r \in BagToSet(runs') :
    /\ CopiesIn(r, runs') > CopiesIn(r, runs)
    /\ r.phase = "fetch"
    /\ r.analysisType = type

MenuChoiceIsSent ==
  [][/\ \A t \in AnalysisTypes : PickAnalysisType(t) => StartedWith(t)
     /\ SubmitCustomQuestion => StartedWith("custom")]_vars

\* C39: once two overlapping opens have both answered, the cached tree,
\* stats, name and path are those of the project requested last
LastRequestedProjectWins ==
  (/\ opens = EmptyBag
   /\ \E i \in DOMAIN recentProjects : recentProjects[i] = RootP
   /\ \E i \in DOMAIN recentProjects : recentProjects[i] = RootQ)
    => /\ projectTree = RootQ
       /\ projectStats = RootQ
       /\ projectName = RootQ
       /\ projectPath = RootQ

\* C40: the indexing flag is set in every state in which an indexing
\* request, automatic or by hand, is in flight
IndexingWhileAnyRequest ==
  indexes # EmptyBag => indexing

====
